---- MODULE Spec2Model ----
(***************************************************************************)
(* Calm-Mail: the triage decision engine, the label resolver/cache and the *)
(* batched mutation executor, as implemented by the two entry points       *)
(*   src/arzius_agent.py  (one pass:    main)                              *)
(*   src/main.py          (continuous:  run_agent_logic, start_click)      *)
(*                                                                         *)
(* Text is modelled as a sequence of one-character strings, so that        *)
(* lower(), upper(), strip(), `in`, split('@') and the regular expression  *)
(* <(.+?)> are computed character by character.  An oracle response is a   *)
(* sequence of lexemes ("{", "}", prose, a "category" member, a            *)
(* "reasoning" member) on which find('{'), rfind('}'), slicing and         *)
(* json.loads are computed.                                                *)
(***************************************************************************)
EXTENDS Integers, Sequences, FiniteSets, TLC

VARIABLES
    mode,          \* which entry point runs: "agent" or "main"
    config,        \* config.json as loaded (both entry points read the same file)
    credentials,   \* os.path.exists('credentials.json')
    provLabels,    \* provider: the labels of the mailbox, a set of [name, id]
    nextId,        \* provider: number of the next label it assigns
    inbox,         \* provider: identifiers of the messages carrying INBOX
    trashed,       \* provider: identifiers of the messages carrying TRASH
    is_running,    \* main.py: the nonlocal flag
    btn_disabled,  \* main.py: btn_run.disabled
    pc,            \* position of the triage worker
    cache,         \* LabelManager.cache / label_cache: a set of <<key, id>>
    msgs,          \* the batch listed for this cycle
    idx,           \* how many messages of msgs the scan loop has taken
    trash_ids,     \* BatchPlan: identifiers to delete
    move_map,      \* BatchPlan: sequence of [lid, ids], in insertion order
    mv,            \* how many entries of move_map the executor has taken
    cycles,        \* scan cycles started in this session
    scanLog,       \* history: one record per message scanned in this cycle
    requests,      \* history: batchModify requests issued in this cycle
    resolveLog,    \* history: the label resolutions of this session
    exec,          \* history: how far the executor got with this cycle's plan
    stop_pending,  \* main.py: a worker is in stop_process, the button not yet enabled
    click,         \* main.py: position of the start_click handler
    probe          \* one application of a function of the program: [fn, in, out]

vars == <<mode, config, credentials, provLabels, nextId, inbox, trashed,
          is_running, btn_disabled, pc, cache, msgs, idx, trash_ids, move_map,
          mv, cycles, scanLog, requests, resolveLog, exec, stop_pending,
          click, probe>>

----------------------------------------------------------------------------
(* Bounds of the model.                                                    *)

\* messages in the inbox when the program starts
MaxInbox == 2
\* scan cycles the continuous loop may start in one session
MaxCycles == 2

----------------------------------------------------------------------------
(* Text.                                                                   *)

LowerAlpha == <<"a","b","c","d","e","f","g","h","i","j","k","l","m",
                "n","o","p","q","r","s","t","u","v","w","x","y","z">>
UpperAlpha == <<"A","B","C","D","E","F","G","H","I","J","K","L","M",
                "N","O","P","Q","R","S","T","U","V","W","X","Y","Z">>

LowerChar(c) ==
    IF \E i \in 1..26 : UpperAlpha[i] = c
    THEN LowerAlpha[CHOOSE i \in 1..26 : UpperAlpha[i] = c]
    ELSE c

UpperChar(c) ==
    IF \E i \in 1..26 : LowerAlpha[i] = c
    THEN UpperAlpha[CHOOSE i \in 1..26 : LowerAlpha[i] = c]
    ELSE c

\* str.lower()
Lower(s) == [i \in 1..Len(s) |-> LowerChar(s[i])]

\* str.upper()
Upper(s) == [i \in 1..Len(s) |-> UpperChar(s[i])]

\* str.strip(): surrounding whitespace removed
Strip(s) ==
    LET ink == {i \in 1..Len(s) : s[i] # " "}
    IN  IF ink = {} THEN <<>>
        ELSE SubSeq(s, CHOOSE i \in ink : \A j \in ink : i <= j,
                       CHOOSE i \in ink : \A j \in ink : i >= j)

\* p in s  (substring test; the empty text is in every text)
Contains(p, s) ==
    \E i \in 0..(Len(s) - Len(p)) : SubSeq(s, i + 1, i + Len(p)) = p

\* c in s, for one character
HasChar(c, s) == \E i \in 1..Len(s) : s[i] = c

\* s.split(c)[-1]: the text after the last c, all of s when c does not occur
AfterLast(c, s) ==
    LET at == {i \in 1..Len(s) : s[i] = c}
    IN  IF at = {} THEN s
        ELSE SubSeq(s, (CHOOSE i \in at : \A j \in at : i >= j) + 1, Len(s))

\* re.search(r'<(.+?)>', s): the leftmost '<' that has a '>' at least two
\* places further on, and the nearest such '>'; <<>> stands for no match
\* (a match is never empty, .+? takes at least one character)
AngleGroup(s) ==
    LET closes(i) == {j \in (i + 2)..Len(s) : s[j] = ">"}
        opens == {i \in 1..Len(s) : s[i] = "<" /\ closes(i) # {}}
    IN  IF opens = {} THEN <<>>
        ELSE LET i == CHOOSE a \in opens : \A b \in opens : a <= b
                 j == CHOOSE a \in closes(i) : \A b \in closes(i) : a <= b
             IN  SubSeq(s, i + 1, j - 1)

\* the address: match.group(1) if match else the header itself
AddressOf(s) == IF AngleGroup(s) = <<>> THEN s ELSE AngleGroup(s)

UNKNOWN == <<"u","n","k","n","o","w","n">>

\* arzius_agent.py: str.split never raises, the except branch is dead
extract_domain_info(sender_str) ==
    LET email == AddressOf(sender_str)
    IN  [email |-> email, domain |-> Strip(Lower(AfterLast("@", email)))]

\* main.py: the inline parsing of run_agent_logic
ParseSenderMain(send) ==
    LET email == AddressOf(send)
    IN  [email |-> email,
         domain |-> IF HasChar("@", email)
                    THEN Strip(Lower(AfterLast("@", email)))
                    ELSE UNKNOWN]

----------------------------------------------------------------------------
(* The classification oracle's response and its parsing.                   *)

LB == [t |-> "{", v |-> <<>>]
RB == [t |-> "}", v |-> <<>>]
\* any text without a brace
PR == [t |-> "prose", v |-> <<>>]
\* the member "reasoning": "..."
RS == [t |-> "reasoning", v |-> <<>>]
\* the member "category": "<v>"
Cat(v) == [t |-> "category", v |-> v]

\* content.find(tok): 0-based, -1 when absent
Find(tok, content) ==
    LET at == {i \in 1..Len(content) : content[i] = tok}
    IN  IF at = {} THEN -1 ELSE (CHOOSE i \in at : \A j \in at : i <= j) - 1

\* content.rfind(tok): 0-based, -1 when absent
RFind(tok, content) ==
    LET at == {i \in 1..Len(content) : content[i] = tok}
    IN  IF at = {} THEN -1 ELSE (CHOOSE i \in at : \A j \in at : i >= j) - 1

\* no extraction: the whole content is handed to json.loads
PySlice_Whole(s, a, b) == s

\* content[a:b] for b >= 0; a negative a counts from the end
PySlice(s, a, b) ==
    LET lo == IF a < 0 THEN (IF Len(s) + a < 0 THEN 0 ELSE Len(s) + a)
              ELSE (IF a > Len(s) THEN Len(s) ELSE a)
        hi == IF b > Len(s) THEN Len(s) ELSE b
    IN  IF hi <= lo THEN <<>> ELSE SubSeq(s, lo + 1, hi)

\* json.loads on a slice that starts at a brace: an object is "{", members,
\* "}"; anything else raises.  A repeated member keeps its last value.
JsonLoads(toks) ==
    LET n == Len(toks)
        ok == /\ n >= 2
              /\ toks[1] = LB
              /\ toks[n] = RB
              /\ \A i \in 2..(n - 1) : toks[i].t \in {"category", "reasoning"}
        cats == IF ok THEN {i \in 2..(n - 1) : toks[i].t = "category"} ELSE {}
    IN  [ok |-> ok,
         hasCategory |-> cats # {},
         category |-> IF cats = {} THEN <<>>
                      ELSE toks[CHOOSE i \in cats : \A j \in cats : i >= j].v]

DELETE == <<"D","E","L","E","T","E">>
SPAM == <<"S","P","A","M">>
TRASH == <<"T","R","A","S","H">>
INBOX == <<"I","N","B","O","X">>
UNREAD == <<"U","N","R","E","A","D">>
STARRED == <<"S","T","A","R","R","E","D">>
IMPORTANT == <<"I","M","P","O","R","T","A","N","T">>
Family == <<"F","a","m","i","l","y">>

\* the empty text stands for None / no label
None == <<>>

Skip == [action |-> "SKIP", label |-> None, oracle |-> FALSE]

\* arzius_agent.py, phase 2: the response handling inside the try block
OracleDecisionAgent(resp) ==
    IF ~resp.ok THEN [Skip EXCEPT !.oracle = TRUE]
    ELSE
    LET content == resp.content
        start == Find(LB, content)
        end == RFind(RB, content) + 1
        decision == JsonLoads(PySlice(content, start, end))
        category == Strip(IF decision.hasCategory THEN decision.category ELSE INBOX)
    IN  IF start = -1 \/ ~decision.ok
        THEN [Skip EXCEPT !.oracle = TRUE]
        ELSE IF Upper(category) \in {DELETE, SPAM, TRASH}
        THEN [action |-> "DELETE", label |-> None, oracle |-> TRUE]
        ELSE [action |-> "LABEL", label |-> category, oracle |-> TRUE]

\* main.py, step C: the response handling inside the try block
OracleDecisionMain(resp) ==
    IF ~resp.ok THEN [Skip EXCEPT !.oracle = TRUE]
    ELSE
    LET content == resp.content
        dec == JsonLoads(PySlice(content, Find(LB, content), RFind(RB, content) + 1))
        c == IF dec.hasCategory THEN dec.category ELSE INBOX
    IN  IF ~dec.ok
        THEN [Skip EXCEPT !.oracle = TRUE]
        ELSE IF Upper(c) \in {DELETE, SPAM}
        THEN [action |-> "DELETE", label |-> None, oracle |-> TRUE]
        ELSE IF Upper(c) # INBOX
        THEN [action |-> "LABEL", label |-> c, oracle |-> TRUE]
        ELSE [Skip EXCEPT !.oracle = TRUE]

----------------------------------------------------------------------------
(* The decision engine.                                                    *)

\* the blacklist test with "==" in place of "in"
Blacklisted_ExactMatch(cfg, domain) ==
    \E i \in 1..Len(cfg.blacklist_domains) : cfg.blacklist_domains[i] = domain

\* any(b in domain for b in blacklist_domains)
Blacklisted(cfg, domain) ==
    \E i \in 1..Len(cfg.blacklist_domains) :
        Contains(cfg.blacklist_domains[i], domain)

\* the rule test without the two lower() calls
RuleMatches_CaseSensitive(r, email) ==
    \E i \in 1..Len(r) : Contains(r[i], email)

\* any(x.lower() in email.lower() for x in r)
RuleMatches(r, email) ==
    \E i \in 1..Len(r) : Contains(Lower(r[i]), Lower(email))

\* arzius_agent.py
analyze_email_sovereign(sender, cfg, resp) ==
    LET p == extract_domain_info(sender)
    IN  IF Blacklisted(cfg, p.domain)
        THEN [action |-> "DELETE", label |-> None, oracle |-> FALSE]
        ELSE IF RuleMatches(cfg.family_emails, p.email)
        THEN [action |-> "LABEL", label |-> Family, oracle |-> FALSE]
        ELSE OracleDecisionAgent(resp)

\* main.py, step B: the first entry of label_rules, in the mapping's order,
\* one of whose patterns is in the address; 0 when there is none
FirstRule(cfg, email) ==
    LET hit == {i \in 1..Len(cfg.label_rules) :
                    RuleMatches(cfg.label_rules[i].patterns, email)}
    IN  IF hit = {} THEN 0 ELSE CHOOSE i \in hit : \A j \in hit : i <= j

\* main.py, steps A to C of the scan loop
DecideMain(send, cfg, resp) ==
    LET p == ParseSenderMain(send)
    IN  IF Blacklisted(cfg, p.domain)
        THEN [action |-> "DELETE", label |-> None, oracle |-> FALSE]
        ELSE IF FirstRule(cfg, p.email) # 0
        THEN [action |-> "LABEL",
              label |-> cfg.label_rules[FirstRule(cfg, p.email)].label,
              oracle |-> FALSE]
        ELSE OracleDecisionMain(resp)

----------------------------------------------------------------------------
(* The mailbox provider and the label cache.                               *)

Digits == <<"0","1","2","3","4","5","6","7","8","9">>

\* the identifier the provider assigns to its n-th user label
IdOf(n) == <<"L", Digits[(n \div 10) + 1], Digits[(n % 10) + 1]>>

system_labels == {INBOX, SPAM, TRASH, UNREAD, STARRED, IMPORTANT}

\* the system labels as the provider lists them: the name is the identifier
SystemListing ==
    << [name |-> INBOX, id |-> INBOX], [name |-> TRASH, id |-> TRASH],
       [name |-> SPAM, id |-> SPAM], [name |-> UNREAD, id |-> UNREAD],
       [name |-> STARRED, id |-> STARRED], [name |-> IMPORTANT, id |-> IMPORTANT] >>

\* {l['name'].lower(): l['id'] for l in labels}: a later entry replaces an
\* earlier one with the same key
FromListing(labels) ==
    {<<Lower(labels[i].name), labels[i].id>> : i \in
        {i \in 1..Len(labels) :
            \A j \in (i + 1)..Len(labels) : Lower(labels[j].name) # Lower(labels[i].name)}}

\* key in cache
InCache(c, key) == \E p \in c : p[1] = key

\* cache.get(key)
CacheGet(c, key) == IF InCache(c, key) THEN (CHOOSE p \in c : p[1] = key)[2] ELSE None

\* cache[key] = id
CachePut(c, key, id) == {p \in c : p[1] # key} \cup {<<key, id>>}

\* the provider holds a label of that name (names differ by more than case)
ProvHas(prov, key) == \E i \in 1..Len(prov) : Lower(prov[i].name) = key

\* what the provider may answer to createLabel: a conflict when the name
\* exists (or another client creates it first), otherwise success; or a failure
CreateOutcomes(prov, key) ==
    IF ProvHas(prov, key) THEN {"conflict", "error"} ELSE {"ok", "conflict", "error"}

\* the provider's labels after a createLabel request with that outcome; on a
\* conflict for a name it did not hold, another client has just created it
ProvAfterCreate(prov, n, name, outcome) ==
    IF outcome = "error" \/ ProvHas(prov, Lower(name)) THEN prov
    ELSE Append(prov, [name |-> name, id |-> IdOf(n)])

NextIdAfterCreate(prov, n, name, outcome) ==
    IF outcome = "error" \/ ProvHas(prov, Lower(name)) THEN n ELSE n + 1

\* LabelManager.refresh_cache: on HttpError the cache is left as it is
refresh_cache(c, prov, listOk) == IF listOk THEN FromListing(prov) ELSE c

\* LabelManager.get_or_create (arzius_agent.py); outcome and listOk are the
\* provider's answers to the createLabel and the listLabels request, if made
get_or_create(label_name, c, prov, n, outcome, listOk) ==
    LET clean_name == Strip(label_name)
        key == Lower(clean_name)
        prov2 == ProvAfterCreate(prov, n, clean_name, outcome)
        n2 == NextIdAfterCreate(prov, n, clean_name, outcome)
        same == [cache |-> c, prov |-> prov, nextId |-> n, refresh |-> "none"]
    IN  IF Upper(clean_name) \in system_labels
        THEN [lid |-> Upper(clean_name), request |-> "none"] @@ same
        ELSE IF InCache(c, key)
        THEN [lid |-> CacheGet(c, key), request |-> "none"] @@ same
        ELSE IF outcome = "ok"
        THEN [lid |-> IdOf(n), request |-> "ok", cache |-> CachePut(c, key, IdOf(n)),
              prov |-> prov2, nextId |-> n2, refresh |-> "none"]
        ELSE IF outcome = "conflict"
        THEN [lid |-> CacheGet(refresh_cache(c, prov2, listOk), key),
              request |-> "conflict",
              cache |-> refresh_cache(c, prov2, listOk),
              prov |-> prov2, nextId |-> n2,
              refresh |-> IF listOk THEN "ok" ELSE "failed"]
        ELSE [lid |-> None, request |-> "error"] @@ same

\* main.py: the cache lookup and creation inlined in the scan loop; every
\* failure of the creation is swallowed by except: pass
ResolveMain(label, c, prov, n, outcome, listOk) ==
    LET key == Lower(label)
        lid == CacheGet(c, key)
        prov2 == ProvAfterCreate(prov, n, label, outcome)
        n2 == NextIdAfterCreate(prov, n, label, outcome)
    IN  IF lid # None
        THEN [lid |-> lid, request |-> "none", cache |-> c, prov |-> prov, nextId |-> n,
              refresh |-> "none"]
        ELSE IF outcome = "ok"
        THEN [lid |-> IdOf(n), request |-> "ok", cache |-> CachePut(c, key, IdOf(n)),
              prov |-> prov2, nextId |-> n2, refresh |-> "none"]
        ELSE [lid |-> None, request |-> outcome, cache |-> c,
              prov |-> prov2, nextId |-> n2, refresh |-> "none"]

----------------------------------------------------------------------------
(* Inputs: the mailbox, the configurations and the oracle's answers.       *)

\* the From headers of the mailbox
Senders ==
    << <<"N"," ","<","x","@","m",".","Q","C",">">>,   \* N <x@m.QC>
       <<"B","o","@","w",".","c">>,                   \* Bo@w.c
       <<"u","@","z",".","c">> >>                     \* u@z.c

\* the mailbox holds one message of each sender
Msgs == 1..Len(Senders)

SenderOf(m) == Senders[m]

Work == <<"W","o","r","k">>
Fin == <<"F","i","n">>

Configs ==
    { [blacklist_domains |-> << <<"q","c">> >>,
       family_emails |-> << <<"x","@">>, <<"B","O","@">> >>,
       label_rules |-> << [label |-> Work, patterns |-> << <<"x","@">>, <<"@","W">> >>],
                          [label |-> Fin, patterns |-> << <<"B","O","@">> >>] >>,
       batch_size |-> 2],
      [blacklist_domains |-> <<>>,
       family_emails |-> <<>>,
       label_rules |-> << [label |-> <<"T","r","a","s","h">>, patterns |-> << <<"x","@">> >>],
                          [label |-> <<"I","n","b","o","x">>, patterns |-> << <<"b","o","@">> >>] >>,
       batch_size |-> 2],
      [blacklist_domains |-> <<>>,
       family_emails |-> <<>>,
       label_rules |-> <<>>,
       batch_size |-> 1] }

\* ollama.chat raised
OracleDown == [ok |-> FALSE, content |-> <<>>]

OracleResponses ==
    { OracleDown,
      [ok |-> TRUE, content |-> <<PR>>],
      [ok |-> TRUE, content |-> <<LB, RS, RB>>],
      [ok |-> TRUE, content |-> <<LB, Cat(DELETE), RS, RB>>],
      [ok |-> TRUE, content |-> <<PR, LB, RS, Cat(Work), RB, PR>>],
      [ok |-> TRUE, content |-> <<LB, Cat(<<"i","n","b","o","x">>), RB>>],
      [ok |-> TRUE, content |-> <<LB, Cat(TRASH), RB>>] }

\* the labels of the mailbox when the session starts
InitialListings ==
    { SystemListing,
      SystemListing \o << [name |-> <<"W","O","R","K">>, id |-> IdOf(0)] >> }

----------------------------------------------------------------------------
(* The state machine.                                                      *)

\* no function has been applied on its own
NoProbe == [fn |-> "none"]

Init ==
    /\ mode \in {"agent", "main"}
    /\ config \in Configs
    /\ credentials \in (IF mode = "main" THEN BOOLEAN ELSE {TRUE})
    /\ provLabels \in InitialListings
    /\ nextId = 1
    /\ inbox \in {S \in SUBSET Msgs : Cardinality(S) <= MaxInbox}
    /\ trashed = {}
    /\ is_running = FALSE
    /\ btn_disabled = (mode = "agent")
    /\ pc = IF mode = "agent" THEN "init" ELSE "idle"
    /\ cache = {}
    /\ msgs = <<>>
    /\ idx = 0
    /\ trash_ids = <<>>
    /\ move_map = <<>>
    /\ mv = 0
    /\ cycles = 0
    /\ scanLog = <<>>
    /\ requests = <<>>
    /\ resolveLog = <<>>
    /\ exec = "none"
    /\ stop_pending = FALSE
    /\ click = "none"
    /\ probe = NoProbe

\* the elements of a set of numbers in increasing order
RECURSIVE Sorted(_)
Sorted(S) ==
    IF S = {} THEN <<>>
    ELSE LET m == CHOOSE x \in S : \A y \in S : x <= y
         IN  <<m>> \o Sorted(S \ {m})

\* listMessages(q='label:INBOX', maxResults=batch_size)
ListMessages(box, n) ==
    LET all == Sorted(box)
    IN  IF Len(all) <= n THEN all ELSE SubSeq(all, 1, n)

\* the set of the elements of a sequence
Range(q) == {q[i] : i \in 1..Len(q)}

\* move_map[lid].append(id), creating the entry when lid is new
MoveMapAdd(mm, lid, id) ==
    IF \E i \in 1..Len(mm) : mm[i].lid = lid
    THEN [i \in 1..Len(mm) |->
            IF mm[i].lid = lid THEN [mm[i] EXCEPT !.ids = Append(@, id)] ELSE mm[i]]
    ELSE Append(mm, [lid |-> lid, ids |-> <<id>>])

\* batchModifyMessages, when it succeeds, on the provider's markers
InboxAfter(box, req) ==
    IF ~req.ok THEN box
    ELSE ((IF INBOX \in Range(req.remove) THEN box \ Range(req.ids) ELSE box)
          \cup (IF INBOX \in Range(req.add) THEN Range(req.ids) ELSE {}))

TrashedAfter(tr, req) ==
    IF req.ok /\ TRASH \in Range(req.add) THEN tr \cup Range(req.ids) ELSE tr

\* main.py: stop_process, its first statement: the flag is cleared.  It is
\* the last thing a worker does but for the update of the controls, so the
\* worker's position is "idle" from here on: it calls the mailbox and the
\* oracle no more.
StopProcess ==
    /\ is_running' = FALSE
    /\ stop_pending' = TRUE
    /\ pc' = "idle"
    /\ UNCHANGED btn_disabled

\* main.py: start_click, the handler of the start/stop button, up to its
\* write of is_running.  The handler runs in the foreground while the worker
\* runs in its own thread, so the worker's steps may fall between this write
\* and the write of btn_run.disabled that follows it in the stop branch.  A
\* worker started while the previous one is still at work gives the position
\* "overlap": two workers, which the model does not follow any further.
StartClick ==
    /\ mode = "main"
    /\ ~btn_disabled
    /\ click = "none"
    /\ pc # "overlap"
    /\ IF is_running
       THEN /\ is_running' = FALSE
            /\ click' = "stopping"
            /\ UNCHANGED <<pc, resolveLog>>
       ELSE /\ is_running' = TRUE
            /\ pc' = IF pc = "idle" THEN "init" ELSE "overlap"
            /\ resolveLog' = <<>>
            /\ UNCHANGED click
    /\ UNCHANGED <<mode, config, credentials, provLabels, nextId, inbox, trashed,
                   cache, msgs, idx, trash_ids, move_map, mv, cycles, scanLog,
                   requests, stop_pending, btn_disabled>>
    /\ UNCHANGED exec
    /\ UNCHANGED probe

\* main.py: start_click, the rest of the stop branch: the button is disabled
StartClickEnd ==
    /\ mode = "main"
    /\ click = "stopping"
    /\ click' = "none"
    /\ btn_disabled' = TRUE
    /\ UNCHANGED <<mode, config, credentials, provLabels, nextId, inbox, trashed,
                   is_running, pc, cache, msgs, idx, trash_ids, move_map, mv,
                   cycles, scanLog, requests, resolveLog, exec, stop_pending,
                   probe>>

\* main.py: stop_process, from btn_run.text to page.update(): the worker that
\* cleared the flag enables the button again
StopProcessEnd ==
    /\ mode = "main"
    /\ stop_pending
    /\ stop_pending' = FALSE
    /\ btn_disabled' = FALSE
    /\ UNCHANGED <<mode, config, credentials, provLabels, nextId, inbox, trashed,
                   is_running, pc, cache, msgs, idx, trash_ids, move_map, mv,
                   cycles, scanLog, requests, resolveLog, exec, click, probe>>

\* main.py: run_agent_logic up to the continuous loop
MainInit ==
    /\ mode = "main"
    /\ pc = "init"
    /\ \E listOk \in BOOLEAN :
         IF credentials /\ listOk
         THEN /\ cache' = FromListing(provLabels)
              /\ pc' = "loop"
              /\ UNCHANGED <<is_running, btn_disabled, stop_pending>>
         ELSE /\ StopProcess
              /\ UNCHANGED cache
    /\ UNCHANGED <<mode, config, credentials, provLabels, nextId, inbox, trashed,
                   msgs, idx, trash_ids, move_map, mv, cycles, scanLog, requests,
                   resolveLog>>
    /\ UNCHANGED exec
    /\ UNCHANGED <<probe, click>>

\* arzius_agent.py: main up to the listing; LabelManager.__init__
AgentInit ==
    /\ mode = "agent"
    /\ pc = "init"
    /\ \E listOk \in BOOLEAN : cache' = refresh_cache({}, provLabels, listOk)
    /\ pc' = "list"
    /\ UNCHANGED <<mode, config, credentials, provLabels, nextId, inbox, trashed,
                   is_running, btn_disabled, stop_pending, msgs, idx, trash_ids, move_map, mv,
                   cycles, scanLog, requests, resolveLog>>
    /\ UNCHANGED exec
    /\ UNCHANGED <<probe, click>>

\* a cycle starts with an empty plan; the cycles of a session are counted
\* up to MaxCycles
NewPlan(batch) ==
    /\ msgs' = batch
    /\ idx' = 0
    /\ trash_ids' = <<>>
    /\ move_map' = <<>>
    /\ mv' = 0
    /\ scanLog' = <<>>
    /\ requests' = <<>>
    /\ cycles' = IF cycles < MaxCycles THEN cycles + 1 ELSE cycles
    /\ exec' = "none"

\* main.py: the head of the while loop and step 1, the listing; when capped,
\* a session starts at most MaxCycles cycles
PollingLoop(capped) ==
    /\ mode = "main"
    /\ pc = "loop"
    /\ IF ~is_running
       THEN /\ StopProcess
            /\ UNCHANGED <<msgs, idx, trash_ids, move_map, mv, scanLog, requests, cycles, exec>>
       ELSE /\ capped => cycles < MaxCycles
            /\ \E ok \in BOOLEAN :
                 IF ~ok
                 THEN /\ StopProcess
                      /\ UNCHANGED <<msgs, idx, trash_ids, move_map, mv, scanLog,
                                     requests, cycles, exec>>
                 ELSE /\ NewPlan(ListMessages(inbox, config.batch_size))
                      /\ pc' = IF inbox = {} THEN "loop" ELSE "scan"
                      /\ UNCHANGED <<is_running, btn_disabled, stop_pending>>
    /\ UNCHANGED <<mode, config, credentials, provLabels, nextId, inbox, trashed,
                   cache, resolveLog>>
    /\ UNCHANGED <<probe, click>>

MainLoop == PollingLoop(TRUE)

\* arzius_agent.py: the listing of main
AgentList ==
    /\ mode = "agent"
    /\ pc = "list"
    /\ \E ok \in BOOLEAN :
         IF ~ok
         THEN /\ pc' = "done"
              /\ UNCHANGED <<msgs, idx, trash_ids, move_map, mv, scanLog, requests, cycles, exec>>
         ELSE /\ NewPlan(ListMessages(inbox, config.batch_size))
              /\ pc' = IF inbox = {} THEN "done" ELSE "scan"
    /\ UNCHANGED <<mode, config, credentials, provLabels, nextId, inbox, trashed,
                   is_running, btn_disabled, stop_pending, cache, resolveLog>>
    /\ UNCHANGED <<probe, click>>

\* one record of scanLog
ScanEntry(m, fetched, d, resp, lid) ==
    [id |-> m, sender |-> SenderOf(m), fetched |-> fetched, action |-> d.action,
     label |-> d.label, oracle |-> d.oracle,
     resp |-> IF d.oracle THEN resp ELSE OracleDown, lid |-> lid]

\* one record of resolveLog
ResolveEntry(name, r) ==
    [name |-> name, lid |-> r.lid, request |-> r.request, refresh |-> r.refresh]

\* a message whose scan failed is queued for deletion all the same
ScanNothing_Queues(m, fetched, d, resp) ==
    /\ scanLog' = Append(scanLog, ScanEntry(m, fetched, d, resp, None))
    /\ trash_ids' = IF fetched THEN trash_ids ELSE Append(trash_ids, m)
    /\ UNCHANGED <<move_map, cache, provLabels, nextId, resolveLog>>

\* the scan loop leaves everything but the log as it is: the metadata fetch
\* failed (the exception is caught per message) or the decision is SKIP
ScanNothing(m, fetched, d, resp) ==
    /\ scanLog' = Append(scanLog, ScanEntry(m, fetched, d, resp, None))
    /\ UNCHANGED <<trash_ids, move_map, cache, provLabels, nextId, resolveLog>>

\* trash_ids.append(msg['id'])
ScanDelete(m, d, resp) ==
    /\ trash_ids' = Append(trash_ids, m)
    /\ scanLog' = Append(scanLog, ScanEntry(m, TRUE, d, resp, None))
    /\ UNCHANGED <<move_map, cache, provLabels, nextId, resolveLog>>

\* the LABEL branch when it queues the message for deletion as well
ScanLabel_AlsoTrash(m, d, resp, r) ==
    /\ move_map' = IF r.lid # None THEN MoveMapAdd(move_map, r.lid, m) ELSE move_map
    /\ cache' = r.cache
    /\ provLabels' = r.prov
    /\ nextId' = r.nextId
    /\ resolveLog' = Append(resolveLog, ResolveEntry(d.label, r))
    /\ scanLog' = Append(scanLog, ScanEntry(m, TRUE, d, resp, r.lid))
    /\ trash_ids' = Append(trash_ids, m)

\* the LABEL branch: r is the outcome of the resolution of d.label
ScanLabel(m, d, resp, r) ==
    /\ move_map' = IF r.lid # None THEN MoveMapAdd(move_map, r.lid, m) ELSE move_map
    /\ cache' = r.cache
    /\ provLabels' = r.prov
    /\ nextId' = r.nextId
    /\ resolveLog' = Append(resolveLog, ResolveEntry(d.label, r))
    /\ scanLog' = Append(scanLog, ScanEntry(m, TRUE, d, resp, r.lid))
    /\ UNCHANGED trash_ids

\* arzius_agent.py: one iteration of the scan loop of main
AgentScan ==
    /\ mode = "agent"
    /\ pc = "scan"
    /\ idx < Len(msgs)
    /\ LET m == msgs[idx + 1] IN
       \E fetched \in BOOLEAN, resp \in OracleResponses,
          outcome \in {"ok", "conflict", "error"}, listOk \in BOOLEAN :
         LET d == analyze_email_sovereign(SenderOf(m), config, resp) IN
         IF ~fetched THEN ScanNothing(m, FALSE, Skip, resp)
         ELSE IF d.action = "DELETE" THEN ScanDelete(m, d, resp)
         ELSE IF d.action = "LABEL"
         THEN /\ outcome \in CreateOutcomes(provLabels, Lower(Strip(d.label)))
              /\ ScanLabel(m, d, resp, get_or_create(d.label, cache, provLabels,
                                                     nextId, outcome, listOk))
         ELSE ScanNothing(m, TRUE, d, resp)
    /\ idx' = idx + 1
    /\ UNCHANGED <<mode, config, credentials, inbox, trashed, is_running,
                   btn_disabled, stop_pending, pc, msgs, mv, cycles, requests>>
    /\ UNCHANGED exec
    /\ UNCHANGED <<probe, click>>

\* arzius_agent.py: the scan loop is over, the execution loop begins
AgentScanEnd ==
    /\ mode = "agent"
    /\ pc = "scan"
    /\ idx = Len(msgs)
    /\ pc' = "trash"
    /\ UNCHANGED <<mode, config, credentials, provLabels, nextId, inbox, trashed,
                   is_running, btn_disabled, stop_pending, cache, msgs, idx, trash_ids, move_map,
                   mv, cycles, scanLog, requests, resolveLog>>
    /\ exec' = "running"
    /\ UNCHANGED <<probe, click>>

\* main.py: one iteration of step 2; a cleared flag breaks out of the scan
\* and then out of the while loop
MainScan ==
    /\ mode = "main"
    /\ pc = "scan"
    /\ idx < Len(msgs)
    /\ IF ~is_running
       THEN /\ StopProcess
            /\ UNCHANGED <<idx, trash_ids, move_map, cache, provLabels, nextId,
                           resolveLog, scanLog>>
       ELSE /\ LET m == msgs[idx + 1] IN
               \E fetched \in BOOLEAN, resp \in OracleResponses,
                  outcome \in {"ok", "conflict", "error"} :
                 LET d == DecideMain(SenderOf(m), config, resp) IN
                 IF ~fetched THEN ScanNothing(m, FALSE, Skip, resp)
                 ELSE IF d.action = "DELETE" THEN ScanDelete(m, d, resp)
                 ELSE IF d.action = "LABEL"
                 THEN /\ outcome \in CreateOutcomes(provLabels, Lower(d.label))
                      /\ ScanLabel(m, d, resp, ResolveMain(d.label, cache, provLabels,
                                                           nextId, outcome, FALSE))
                 ELSE ScanNothing(m, TRUE, d, resp)
            /\ idx' = idx + 1
            /\ UNCHANGED <<is_running, btn_disabled, stop_pending, pc>>
    /\ UNCHANGED <<mode, config, credentials, inbox, trashed, msgs, mv, cycles,
                   requests>>
    /\ UNCHANGED exec
    /\ UNCHANGED <<probe, click>>

\* main.py: the scan is over; step 3 starts unless the flag is cleared
MainScanEnd ==
    /\ mode = "main"
    /\ pc = "scan"
    /\ idx = Len(msgs)
    /\ IF ~is_running
       THEN StopProcess
       ELSE /\ pc' = "trash"
            /\ UNCHANGED <<is_running, btn_disabled, stop_pending>>
    /\ UNCHANGED <<mode, config, credentials, provLabels, nextId, inbox, trashed,
                   cache, msgs, idx, trash_ids, move_map, mv, cycles, scanLog,
                   requests, resolveLog>>
    /\ exec' = IF is_running THEN "running" ELSE exec
    /\ UNCHANGED <<probe, click>>

\* a batchModify request and the provider's answer
Request(call, ids, add, remove, ok) ==
    [call |-> call, ids |-> ids, add |-> add, remove |-> remove, ok |-> ok]

\* the request is sent and the provider applies it when it succeeds; the
\* history keeps the value is_running had when the request was sent
Issue(req) ==
    /\ requests' = Append(requests, req @@ [running |-> is_running])
    /\ inbox' = InboxAfter(inbox, req)
    /\ trashed' = TrashedAfter(trashed, req)

\* arzius_agent.py: "1. Execute Trash"; an HttpError is caught and printed
AgentTrash ==
    /\ mode = "agent"
    /\ pc = "trash"
    /\ IF trash_ids = <<>>
       THEN UNCHANGED <<requests, inbox, trashed>>
       ELSE \E ok \in BOOLEAN :
              Issue(Request("trash", trash_ids, <<TRASH>>,
                            <<INBOX, UNREAD, IMPORTANT>>, ok))
    /\ pc' = "moves"
    /\ UNCHANGED <<mode, config, credentials, provLabels, nextId, is_running,
                   btn_disabled, stop_pending, cache, msgs, idx, trash_ids, move_map, mv, cycles,
                   scanLog, resolveLog>>
    /\ UNCHANGED exec
    /\ UNCHANGED <<probe, click>>

\* arzius_agent.py: "2. Execute Moves", one iteration
AgentMove ==
    /\ mode = "agent"
    /\ pc = "moves"
    /\ mv < Len(move_map)
    /\ \E ok \in BOOLEAN :
         Issue(Request("move", move_map[mv + 1].ids, <<move_map[mv + 1].lid>>,
                       <<INBOX>>, ok))
    /\ mv' = mv + 1
    /\ UNCHANGED <<mode, config, credentials, provLabels, nextId, is_running,
                   btn_disabled, stop_pending, pc, cache, msgs, idx, trash_ids, move_map, cycles,
                   scanLog, resolveLog>>
    /\ UNCHANGED exec
    /\ UNCHANGED <<probe, click>>

\* arzius_agent.py: CYCLE COMPLETE
AgentDone ==
    /\ mode = "agent"
    /\ pc = "moves"
    /\ mv = Len(move_map)
    /\ pc' = "done"
    /\ UNCHANGED <<mode, config, credentials, provLabels, nextId, inbox, trashed,
                   is_running, btn_disabled, stop_pending, cache, msgs, idx, trash_ids, move_map,
                   mv, cycles, scanLog, requests, resolveLog>>
    /\ exec' = "complete"
    /\ UNCHANGED <<probe, click>>

\* main.py: the trash request of step 3; its failure is an exception that
\* leaves the while loop for the handler at the end of run_agent_logic
MainTrash ==
    /\ mode = "main"
    /\ pc = "trash"
    /\ IF trash_ids = <<>>
       THEN /\ pc' = "moves"
            /\ UNCHANGED <<requests, inbox, trashed, is_running, btn_disabled, stop_pending, exec>>
       ELSE \E ok \in BOOLEAN :
              /\ Issue(Request("trash", trash_ids, <<TRASH>>, <<INBOX>>, ok))
              /\ IF ok
                 THEN /\ pc' = "moves"
                      /\ UNCHANGED <<is_running, btn_disabled, stop_pending, exec>>
                 ELSE /\ StopProcess
                      /\ exec' = "aborted"
    /\ UNCHANGED <<mode, config, credentials, provLabels, nextId, cache, msgs, idx,
                   trash_ids, move_map, mv, cycles, scanLog, resolveLog>>
    /\ UNCHANGED <<probe, click>>

\* the move loop with the flag read before every request
MainMove_ReadsFlag ==
    /\ mode = "main"
    /\ pc = "moves"
    /\ mv < Len(move_map)
    /\ IF ~is_running
       THEN /\ StopProcess
            /\ UNCHANGED <<requests, inbox, trashed, mv, exec>>
       ELSE \E ok \in BOOLEAN :
              /\ Issue(Request("move", move_map[mv + 1].ids,
                               <<move_map[mv + 1].lid>>, <<INBOX>>, ok))
              /\ mv' = mv + 1
              /\ IF ok
                 THEN UNCHANGED <<is_running, btn_disabled, stop_pending, pc, exec>>
                 ELSE /\ StopProcess
                      /\ exec' = "aborted"
    /\ UNCHANGED <<mode, config, credentials, provLabels, nextId, cache, msgs, idx,
                   trash_ids, move_map, cycles, scanLog, resolveLog>>
    /\ UNCHANGED <<probe, click>>

\* main.py: one iteration of the move loop of step 3
MainMove ==
    /\ mode = "main"
    /\ pc = "moves"
    /\ mv < Len(move_map)
    /\ IF move_map[mv + 1].lid = INBOX
       THEN /\ mv' = mv + 1
            /\ UNCHANGED <<requests, inbox, trashed, is_running, btn_disabled, stop_pending, pc,
                           exec>>
       ELSE \E ok \in BOOLEAN :
              /\ Issue(Request("move", move_map[mv + 1].ids,
                               <<move_map[mv + 1].lid>>, <<INBOX>>, ok))
              /\ mv' = mv + 1
              /\ IF ok
                 THEN UNCHANGED <<is_running, btn_disabled, stop_pending, pc, exec>>
                 ELSE /\ StopProcess
                      /\ exec' = "aborted"
    /\ UNCHANGED <<mode, config, credentials, provLabels, nextId, cache, msgs, idx,
                   trash_ids, move_map, cycles, scanLog, resolveLog>>
    /\ UNCHANGED <<probe, click>>

\* main.py: "Batch Done", the pause, and back to the head of the while loop
MainCycleDone ==
    /\ mode = "main"
    /\ pc = "moves"
    /\ mv = Len(move_map)
    /\ pc' = "loop"
    /\ UNCHANGED <<mode, config, credentials, provLabels, nextId, inbox, trashed,
                   is_running, btn_disabled, stop_pending, cache, msgs, idx, trash_ids, move_map,
                   mv, cycles, scanLog, requests, resolveLog>>
    /\ exec' = "complete"
    /\ UNCHANGED <<probe, click>>

Next ==
    \/ StartClick
    \/ StartClickEnd
    \/ StopProcessEnd
    \/ MainInit
    \/ MainLoop
    \/ MainScan
    \/ MainScanEnd
    \/ MainTrash
    \/ MainMove
    \/ MainCycleDone
    \/ AgentInit
    \/ AgentList
    \/ AgentScan
    \/ AgentScanEnd
    \/ AgentTrash
    \/ AgentMove
    \/ AgentDone

Spec == Init /\ [][Next]_vars

----------------------------------------------------------------------------
(* The functions of the program applied on their own: the sender parser,  *)
(* the oracle phase, the three-phase decision and the label resolver, on  *)
(* inputs drawn from bounded sets.  mode and config are the entry point   *)
(* and the configuration; probe holds the last application.               *)

\* length of a From header
MaxHeader == 4
\* length of the prose before and after the object of an oracle response
MaxProse == 2

\* the sequences over the set A of length at most n
RECURSIVE SeqsUpTo(_, _)
SeqsUpTo(A, n) ==
    IF n = 0 THEN {<<>>}
    ELSE LET shorter == SeqsUpTo(A, n - 1)
         IN  shorter \cup {Append(q, a) : q \in shorter, a \in A}

\* the characters of a From header
HeaderChars == {"a", "B", "@", "<", ">", " "}

Headers == SeqsUpTo(HeaderChars, MaxHeader)

\* prose around the object: text without a brace, and braces
ProseTokens == {PR, LB, RB}

Proses == SeqsUpTo(ProseTokens, MaxProse)

\* the category values the oracle may give
Categories ==
    { DELETE, <<"s","p","a","m">>, <<"T","r","a","s","h">>, INBOX,
      <<"I","n","b","o","x">>, Work, <<"T","a","x">> }

\* a valid JSON object with a category member
Objects ==
    UNION { { <<LB, Cat(v), RB>>, <<LB, RS, Cat(v), RB>> } : v \in Categories }

Finance == <<"F","i","n","a","n","c","e">>

\* configurations: label_rules in the order of the mapping, fixed_labels in
\* the order of the list (the defaults of load_config order them differently)
FnConfigs ==
    { [blacklist_domains |-> << <<"q","c">> >>,
       family_emails |-> << <<"x","@">> >>,
       fixed_labels |-> <<Finance, Work, Family>>,
       label_rules |-> << [label |-> Family, patterns |-> << <<"x","@">> >>],
                          [label |-> Work, patterns |-> << <<"@","M">> >>],
                          [label |-> Finance, patterns |-> << <<"x","@">>, <<"@","w">> >>] >>,
       batch_size |-> 2],
      [blacklist_domains |-> <<>>,
       family_emails |-> <<>>,
       fixed_labels |-> <<Work, Finance>>,
       label_rules |-> << [label |-> Work, patterns |-> << <<"@","m">> >>],
                          [label |-> Finance, patterns |-> << <<"x","@">> >>] >>,
       batch_size |-> 2],
      [blacklist_domains |-> <<>>,
       family_emails |-> << <<>> >>,
       fixed_labels |-> <<Work>>,
       label_rules |-> << [label |-> Work, patterns |-> << <<>> >>] >>,
       batch_size |-> 2] }

FnSenders ==
    { <<"N"," ","<","x","@","m",".","Q","C",">">>,   \* N <x@m.QC>
      <<"x","@","m",".","c">>,                       \* x@m.c
      <<"B","o","@","w",".","c">>,                   \* Bo@w.c
      <<"n","o">> }                                  \* no

\* label names to resolve
FnNames ==
    { <<"T","r","a","s","h">>, <<" ","i","n","b","o","x"," ">>, SPAM,
      <<"u","n","r","e","a","d">>, Work, <<" ","W","o","r","k">>, <<"T","a","x">> }

\* a user label that another client may have deleted since it was listed
OldLabel == [name |-> <<"O","l","d">>, id |-> IdOf(7)]

\* the listings a cache may have been built from earlier in the session
EarlierListings == InitialListings \cup {SystemListing \o <<OldLabel>>}

FnCaches == {{}} \cup {FromListing(l) : l \in EarlierListings}

InitFn ==
    /\ mode \in {"agent", "main"}
    /\ config \in FnConfigs
    /\ credentials = TRUE
    /\ provLabels \in InitialListings
    /\ nextId = 1
    /\ inbox = {}
    /\ trashed = {}
    /\ is_running = FALSE
    /\ btn_disabled = FALSE
    /\ pc = "fn"
    /\ cache \in FnCaches
    /\ msgs = <<>>
    /\ idx = 0
    /\ trash_ids = <<>>
    /\ move_map = <<>>
    /\ mv = 0
    /\ cycles = 0
    /\ scanLog = <<>>
    /\ requests = <<>>
    /\ resolveLog = <<>>
    /\ exec = "none"
    /\ stop_pending = FALSE
    /\ click = "none"
    /\ probe = NoProbe

\* one application in a behaviour
Ready == pc = "fn" /\ probe = NoProbe

\* nothing but probe changes in an application
Applied ==
    /\ UNCHANGED <<mode, config, credentials, provLabels, nextId, inbox, trashed,
                is_running, btn_disabled, pc, cache, msgs, idx, trash_ids,
                move_map, mv, cycles, scanLog, requests, resolveLog, exec,
                stop_pending, click>>

\* the sender parser of the running entry point
ParseSender(h) ==
    IF mode = "agent" THEN extract_domain_info(h) ELSE ParseSenderMain(h)

\* the oracle phase of the running entry point
OracleDecision(resp) ==
    IF mode = "agent" THEN OracleDecisionAgent(resp) ELSE OracleDecisionMain(resp)

\* the three phases of the running entry point
Decide(sender, cfg, resp) ==
    IF mode = "agent" THEN analyze_email_sovereign(sender, cfg, resp)
    ELSE DecideMain(sender, cfg, resp)

\* the label resolver of the running entry point
Resolve(name, c, prov, n, outcome, listOk) ==
    IF mode = "agent" THEN get_or_create(name, c, prov, n, outcome, listOk)
    ELSE ResolveMain(name, c, prov, n, outcome, listOk)

ApplyParse ==
    /\ Ready
    /\ \E h \in Headers :
         probe' = [fn |-> "parse", sender |-> h, out |-> ParseSender(h)]
    /\ Applied

ApplyOracle ==
    /\ Ready
    /\ \E before \in Proses, object \in Objects, after \in Proses :
         probe' = [fn |-> "oracle", before |-> before, object |-> object,
                   after |-> after,
                   out |-> OracleDecision([ok |-> TRUE,
                                           content |-> before \o object \o after])]
    /\ Applied

ApplyDecide ==
    /\ Ready
    /\ \E sender \in FnSenders, resp \in OracleResponses :
         probe' = [fn |-> "decide", sender |-> sender, resp |-> resp,
                   out |-> Decide(sender, config, resp)]
    /\ Applied

ApplyResolve ==
    /\ Ready
    /\ \E name \in FnNames, outcome \in {"ok", "conflict", "error"}, listOk \in BOOLEAN :
         /\ outcome \in CreateOutcomes(provLabels, Lower(Strip(name)))
         /\ probe' = [fn |-> "resolve", name |-> name,
                      out |-> Resolve(name, cache, provLabels, nextId, outcome, listOk)]
    /\ Applied

NextFn ==
    \/ ApplyParse
    \/ ApplyOracle
    \/ ApplyDecide
    \/ ApplyResolve

SpecFn == InitFn /\ [][NextFn]_vars

----------------------------------------------------------------------------
(* Continuous mode left to run: the worker of main.py is started and never *)
(* cancelled, every call to the provider and to the oracle returns a       *)
(* result, and the cycles are not capped.  The worker's steps are taken    *)
(* fairly: its thread is scheduled as long as it has a step to take.       *)

\* no rules; the domain of the third sender is blacklisted
LiveConfigs ==
    { [blacklist_domains |-> << <<"z",".","c">> >>,
       family_emails |-> <<>>,
       label_rules |-> <<>>,
       batch_size |-> b] : b \in 1..2 }

InitLive ==
    /\ mode = "main"
    /\ config \in LiveConfigs
    /\ credentials = TRUE
    /\ provLabels \in InitialListings
    /\ nextId = 1
    /\ inbox \in SUBSET Msgs
    /\ trashed = {}
    /\ is_running = FALSE
    /\ btn_disabled = FALSE
    /\ pc = "idle"
    /\ cache = {}
    /\ msgs = <<>>
    /\ idx = 0
    /\ trash_ids = <<>>
    /\ move_map = <<>>
    /\ mv = 0
    /\ cycles = 0
    /\ scanLog = <<>>
    /\ requests = <<>>
    /\ resolveLog = <<>>
    /\ exec = "none"
    /\ stop_pending = FALSE
    /\ click = "none"
    /\ probe = NoProbe

\* the last message scanned: its metadata was fetched, the oracle answered
\* if it was asked, and its label was resolved if it has one
LastScanReturned(log) ==
    LET e == log[Len(log)] IN
    /\ e.fetched
    /\ e.oracle => e.resp.ok
    /\ e.action = "LABEL" => e.lid # None

\* the start click; no stop click follows
LiveStart == ~is_running /\ StartClick

LiveInit == MainInit /\ pc' = "loop"

LiveLoop == PollingLoop(FALSE) /\ pc' # "idle"

LiveScan == MainScan /\ LastScanReturned(scanLog')

LiveTrash == MainTrash /\ pc' = "moves"

LiveMove == MainMove /\ pc' = "moves"

NextLive ==
    \/ LiveStart
    \/ LiveInit
    \/ LiveLoop
    \/ LiveScan
    \/ MainScanEnd
    \/ LiveTrash
    \/ LiveMove
    \/ MainCycleDone

\* a step of the worker thread
Worker ==
    \/ MainInit
    \/ PollingLoop(FALSE)
    \/ MainScan
    \/ MainScanEnd
    \/ MainTrash
    \/ MainMove
    \/ MainCycleDone

\* the run is started, and the worker's thread takes a step whenever it
\* has one to take
SpecLive ==
    InitLive /\ [][NextLive]_vars /\ WF_vars(LiveStart) /\ WF_vars(Worker)

----------------------------------------------------------------------------
(* The claims.                                                             *)

\* the sender of a scanned message as the running entry point parses it
ParsedOf(e) ==
    IF mode = "agent" THEN extract_domain_info(e.sender) ELSE ParseSenderMain(e.sender)

\* the routing rules the running entry point reads: label_rules in main.py,
\* the family_emails list with the label Family in arzius_agent.py
RoutingRules ==
    IF mode = "agent"
    THEN << [label |-> Family, patterns |-> config.family_emails] >>
    ELSE config.label_rules

\* the parsed domain contains a configured blacklist entry
DomainBlacklisted(e) ==
    \E i \in 1..Len(config.blacklist_domains) :
        Contains(config.blacklist_domains[i], ParsedOf(e).domain)

\* the rules one of whose patterns is in the address, letter case aside
RuleHits(e) ==
    {i \in 1..Len(RoutingRules) :
        \E k \in 1..Len(RoutingRules[i].patterns) :
            Contains(Lower(RoutingRules[i].patterns[k]), Lower(ParsedOf(e).email))}

\* the message is in the plan's delete set / in one of its move sets
InDeleteSet(id) == id \in Range(trash_ids)
InMoveSet(id) == \E k \in 1..Len(move_map) : id \in Range(move_map[k].ids)

\* C1: a scanned message whose parsed domain contains a blacklist entry is
\* decided Delete and queued for deletion, and the oracle is not consulted,
\* whatever the rules and the oracle's answer are.
C1_BlacklistDominates ==
    \A i \in 1..Len(scanLog) :
        LET e == scanLog[i] IN
        (e.fetched /\ DomainBlacklisted(e))
            => (e.action = "DELETE" /\ ~e.oracle /\ InDeleteSet(e.id))

\* a blacklisted message that also matches a rule has been decided Delete
BlacklistBeatsRule ==
    \E i \in 1..Len(scanLog) :
        /\ scanLog[i].fetched
        /\ DomainBlacklisted(scanLog[i])
        /\ RuleHits(scanLog[i]) # {}
        /\ scanLog[i].action = "DELETE"

C1_Witness == mode = "main" /\ BlacklistBeatsRule

\* the same case in arzius_agent.py
C1_WitnessAgent == mode = "agent" /\ BlacklistBeatsRule

RuleDecided ==
    \E i \in 1..Len(scanLog) :
        LET e == scanLog[i] IN
        /\ e.fetched
        /\ ~DomainBlacklisted(e)
        /\ e.action = "LABEL"
        /\ ~e.oracle
        /\ \E k \in RuleHits(e) :
             /\ e.label = RoutingRules[k].label
             /\ \A n \in 1..Len(RoutingRules[k].patterns) :
                  ~Contains(RoutingRules[k].patterns[n], ParsedOf(e).email)

C2_WitnessAgent == mode = "agent" /\ RuleDecided

\* the object between the first "{" and the last "}" of a response
EmbeddedObject(resp) ==
    JsonLoads(PySlice(resp.content, Find(LB, resp.content), RFind(RB, resp.content) + 1))

\* the call failed, or there is no parseable object, or it has no category
OracleUnusable(resp) ==
    \/ ~resp.ok
    \/ Find(LB, resp.content) = -1
    \/ ~EmbeddedObject(resp).ok
    \/ ~EmbeddedObject(resp).hasCategory

\* the response holds an object whose category is a delete synonym
DeleteVerdict(resp) ==
    /\ ~OracleUnusable(resp)
    /\ Upper(Strip(EmbeddedObject(resp).category)) \in {DELETE, SPAM, TRASH}

\* C3: when the oracle is consulted and its call fails, or its response has
\* no parseable object, or the object has no category, the decision is Skip
\* and the message is in neither the delete set nor a move set.
C3_OracleFailureIsSkip ==
    \A i \in 1..Len(scanLog) :
        LET e == scanLog[i] IN
        (e.oracle /\ OracleUnusable(e.resp))
            => (e.action = "SKIP" /\ ~InDeleteSet(e.id) /\ ~InMoveSet(e.id))

\* C4: a message is in a batchModify request that adds TRASH only if, in this
\* cycle, its domain matched the blacklist or the oracle gave a delete verdict.
C4_TrashOnlyOnVerdict ==
    \A k \in 1..Len(requests) :
        TRASH \in Range(requests[k].add) =>
            \A id \in Range(requests[k].ids) :
                \E i \in 1..Len(scanLog) :
                    /\ scanLog[i].id = id
                    /\ \/ DomainBlacklisted(scanLog[i])
                       \/ scanLog[i].oracle /\ DeleteVerdict(scanLog[i].resp)

\* the cache key of a label name
KeyOf(name) == Lower(Strip(name))

\* the resolutions of this session that sent a createLabel request for key
CreatesFor(key) ==
    {i \in 1..Len(resolveLog) :
        KeyOf(resolveLog[i].name) = key /\ resolveLog[i].request # "none"}

\* C5: two resolutions of one name in a session send at most one createLabel
\* request between them and return the same identifier, whatever the answer
\* to the first request was (a listing that fails during a refresh aside).
C5_ResolveIdempotent ==
    \A i, j \in 1..Len(resolveLog) :
        (/\ i < j
         /\ resolveLog[i].name = resolveLog[j].name
         /\ resolveLog[i].refresh # "failed"
         /\ resolveLog[j].refresh # "failed")
            => /\ ~(resolveLog[i].request # "none" /\ resolveLog[j].request # "none")
               /\ resolveLog[i].lid = resolveLog[j].lid

\* C6: for each key the createLabel requests sent so far number at most one
\* plus the conflicts answered for it.
C6_CreatesBoundedByConflicts ==
    \A n \in 1..Len(resolveLog) :
        LET key == KeyOf(resolveLog[n].name) IN
        Cardinality(CreatesFor(key))
            <= 1 + Cardinality({i \in CreatesFor(key) : resolveLog[i].request = "conflict"})

\* the identifier the provider holds for a key
ProvIdOf(key) ==
    IF ProvHas(provLabels, key)
    THEN provLabels[CHOOSE i \in 1..Len(provLabels) : Lower(provLabels[i].name) = key].id
    ELSE None

\* C7: a resolution whose createLabel request met a conflict returns the
\* provider's identifier, leaves it in the cache under the key, and is
\* followed by no other createLabel request for the key (a listing that
\* fails during the refresh aside).
C7_ConflictConverges ==
    \A i \in 1..Len(resolveLog) :
        (resolveLog[i].request = "conflict" /\ resolveLog[i].refresh # "failed") =>
            LET key == KeyOf(resolveLog[i].name) IN
            /\ resolveLog[i].lid # None
            /\ resolveLog[i].lid = ProvIdOf(key)
            /\ CacheGet(cache, key) = ProvIdOf(key)
            /\ \A j \in CreatesFor(key) : j <= i

\* the requests of this cycle sent by the delete call / by the move of lid
TrashRequests == {k \in 1..Len(requests) : requests[k].call = "trash"}
MoveRequests(lid) ==
    {k \in 1..Len(requests) : requests[k].call = "move" /\ requests[k].add = <<lid>>}

\* the executor is through with the plan of this cycle
ExecutorOver == exec \in {"complete", "aborted"}

\* every batch of the plan has been requested exactly once, with all its messages
PlanIssuedOnce ==
    /\ trash_ids # <<>> =>
          /\ Cardinality(TrashRequests) = 1
          /\ \A k \in TrashRequests : requests[k].ids = trash_ids
    /\ \A n \in 1..Len(move_map) :
          move_map[n].lid # INBOX =>
              /\ Cardinality(MoveRequests(move_map[n].lid)) = 1
              /\ \A k \in MoveRequests(move_map[n].lid) : requests[k].ids = move_map[n].ids

\* C8: in a cycle there is at most one delete request, none for an empty
\* delete set, and when the executor is through exactly one request per label
\* identifier of the plan, each carrying all the messages of its destination.
C8_OneRequestPerDestination ==
    /\ Cardinality(TrashRequests) <= 1
    /\ trash_ids = <<>> => TrashRequests = {}
    /\ \A n \in 1..Len(move_map) : Cardinality(MoveRequests(move_map[n].lid)) <= 1
    /\ ExecutorOver => PlanIssuedOnce

\* C9: when a batched call of the cycle has failed and the executor is
\* through, every batch of the plan has still been requested, each once.
C9_FailureDoesNotBlock ==
    (ExecutorOver /\ \E k \in 1..Len(requests) : ~requests[k].ok)
        => /\ PlanIssuedOnce
           /\ \A k, n \in 1..Len(requests) :
                 (requests[k].call = requests[n].call /\ requests[k].add = requests[n].add)
                     => k = n

\* C10: no batchModify request adds INBOX.
C10_NeverMoveToInbox ==
    \A k \in 1..Len(requests) : INBOX \notin Range(requests[k].add)

\* the worker is inside the polling loop of run_agent_logic
InPollingLoop == mode = "main" /\ pc \in {"loop", "scan", "trash", "moves"}

\* C11: in continuous mode, while no cancellation is requested, no step of
\* the polling loop (a failed listing, metadata fetch or batchModify call
\* included) ends the loop: the worker stays in it for a later cycle.
C11_ProviderFailureNotFatal ==
    [][(InPollingLoop /\ is_running) => pc' # "idle"]_vars

\* the executor of main.py has started on the plan, has met no failed call
\* and is no longer at work
ExecutorLeft ==
    /\ mode = "main"
    /\ exec \in {"running", "complete"}
    /\ pc \in {"idle", "init", "loop", "scan"}

\* C12: in continuous mode, once the executor has started on a cycle's plan
\* it leaves it only with every batch of the plan requested, whenever a
\* cancellation is requested (the flag is not read between the requests);
\* and while the flag is cleared no new scan cycle is started.
C12_CancelBetweenCyclesOnly ==
    /\ [](ExecutorLeft => PlanIssuedOnce)
    /\ [][(mode = "main" /\ ~is_running) => cycles' = cycles]_vars

\* a request of the plan was sent after the cancellation was requested, and
\* the executor went through the whole plan
C12_Witness ==
    /\ mode = "main"
    /\ exec = "complete"
    /\ \E k \in 1..Len(requests) : ~requests[k].running /\ requests[k].call = "move"

\* C13: at most one triage worker is at work at any time: start_click never
\* starts a worker while an earlier one can still call the mailbox or the
\* oracle, however its invocations fall among the steps of a worker's end.
C13_SingleWorker == pc # "overlap"

\* the prose holds no brace
NoBrace(prose) == \A i \in 1..Len(prose) : prose[i] = PR

\* the decision of the oracle phase for the object alone
AloneDecision(object) == OracleDecision([ok |-> TRUE, content |-> object])

\* C14 as stated: for a valid JSON object with a category, surrounded by
\* arbitrary prose, the decision is the decision for the object alone.
C14_ArbitraryProse ==
    probe.fn = "oracle" => probe.out = AloneDecision(probe.object)

\* C14, amended: for a valid JSON object with a category, surrounded by prose
\* that holds no brace, the decision is the decision for the object alone.
C14_ProseRobust ==
    (probe.fn = "oracle" /\ NoBrace(probe.before) /\ NoBrace(probe.after))
        => probe.out = AloneDecision(probe.object)

\* a delete verdict taken out of prose on both sides
C14_Witness ==
    /\ probe.fn = "oracle"
    /\ probe.before # <<>> /\ NoBrace(probe.before)
    /\ probe.after # <<>> /\ NoBrace(probe.after)
    /\ probe.out.action = "DELETE"

\* the category of a parsed object
CategoryOf(object) == JsonLoads(object).category

\* C15: when the response parses and has a category, the decision is Delete
\* for DELETE, SPAM or TRASH, Skip for INBOX (letter case aside in both), and
\* otherwise Label with the category as the label name.
C15_CategoryDecision ==
    (probe.fn = "oracle" /\ NoBrace(probe.before) /\ NoBrace(probe.after)) =>
        LET c == CategoryOf(probe.object) IN
        IF Upper(c) \in {DELETE, SPAM, TRASH} THEN probe.out.action = "DELETE"
        ELSE IF Upper(c) = INBOX THEN probe.out.action = "SKIP"
        ELSE probe.out.action = "LABEL" /\ probe.out.label = c

\* C16: the sender parser returns, for a header whose extracted address
\* holds no "@", the domain "unknown", and otherwise the text after the last
\* "@", lowercased and trimmed.
C16_SenderDomain ==
    probe.fn = "parse" =>
        LET email == probe.out.email IN
        /\ email = AddressOf(probe.sender)
        /\ probe.out.domain = IF HasChar("@", email)
                              THEN Strip(Lower(AfterLast("@", email)))
                              ELSE UNKNOWN

\* the labels with a pattern that is in the address of e, letter case aside
MatchingLabels(e) == {RoutingRules[i].label : i \in RuleHits(e)}

\* the label of the set L that comes first in the configured label list
FirstInLabelOrder(L) ==
    LET at == {k \in 1..Len(config.fixed_labels) : config.fixed_labels[k] \in L}
    IN  config.fixed_labels[CHOOSE k \in at : \A j \in at : k <= j]

\* C17: when a non-blacklisted address matches patterns of two or more
\* labels, the decision is Label with the matching label that comes first in
\* the configured label list, whatever the order of the rule mapping.
C17_FirstLabelInListOrder ==
    (/\ probe.fn = "decide"
     /\ ~DomainBlacklisted(probe)
     /\ Cardinality(MatchingLabels(probe)) >= 2
     /\ \A l \in MatchingLabels(probe) : l \in Range(config.fixed_labels))
        => /\ probe.out.action = "LABEL"
           /\ probe.out.label = FirstInLabelOrder(MatchingLabels(probe))

\* every pattern of the rules is the empty text
AllPatternsEmpty ==
    \A i \in 1..Len(RoutingRules) :
        \A k \in 1..Len(RoutingRules[i].patterns) : RoutingRules[i].patterns[k] = <<>>

\* C18: under a configuration whose rule patterns are all empty texts, a
\* non-blacklisted message is not decided by the rule phase: it reaches the
\* oracle phase.
C18_EmptyPatternNeverMatches ==
    (probe.fn = "decide" /\ AllPatternsEmpty /\ ~DomainBlacklisted(probe))
        => probe.out.oracle

\* the name is a system label once trimmed and uppercased
SystemName(name) == Upper(Strip(name)) \in system_labels

\* C19: resolving a name that is a system label once trimmed and uppercased
\* returns that uppercase literal and sends no createLabel request, whatever
\* the letter case, the surrounding whitespace and the cache.
C19_SystemLabelsNeverCreated ==
    (probe.fn = "resolve" /\ SystemName(probe.name))
        => /\ probe.out.lid = Upper(Strip(probe.name))
           /\ probe.out.request = "none"

\* the keys of a cache
Keys(c) == {p[1] : p \in c}

\* C20: a resolution (with the refresh it may trigger, the provider's listing
\* having changed since the cache was built, or the listing call failing)
\* leaves in the cache every key that was in it.
C20_CacheNeverShrinks ==
    probe.fn = "resolve" => Keys(cache) \subseteq Keys(probe.out.cache)

\* the scan of the message failed: its metadata could not be fetched (or
\* held no headers), or its label could not be resolved
ScanFailed(e) == ~e.fetched \/ (e.action = "LABEL" /\ e.lid = None)

\* the message is in a batchModify request of this cycle
InRequest(id) == \E k \in 1..Len(requests) : id \in Range(requests[k].ids)

\* the message is in the move set of lid
InMoveSetOf(lid, id) ==
    \E k \in 1..Len(move_map) : move_map[k].lid = lid /\ id \in Range(move_map[k].ids)

\* a scanned message whose scan did not fail is in the plan as decided
Planned(e) ==
    /\ e.action = "DELETE" => InDeleteSet(e.id)
    /\ e.action = "LABEL" => InMoveSetOf(e.lid, e.id)

\* the scan loop has taken every message of the batch, in order
ScanComplete ==
    /\ Len(scanLog) = Len(msgs)
    /\ \A i \in 1..Len(msgs) : scanLog[i].id = msgs[i]

\* C21: a message whose scan failed (metadata fetch, missing headers, label
\* not resolved) is in no batch of the cycle; the other scanned messages are
\* in the plan as decided, the scan goes on to the remaining messages, and
\* unless a cancellation is requested the executor starts on the plan once
\* every message of the batch has been scanned.
C21_MessageFailureIsLocal ==
    /\ [](\A i \in 1..Len(scanLog) :
             IF ScanFailed(scanLog[i])
             THEN /\ ~InDeleteSet(scanLog[i].id)
                  /\ ~InMoveSet(scanLog[i].id)
                  /\ ~InRequest(scanLog[i].id)
             ELSE Planned(scanLog[i]))
    /\ [](exec # "none" => ScanComplete)
    /\ [][(pc = "scan" /\ pc' # "scan")
            => (pc' = "trash" \/ (mode = "main" /\ ~is_running))]_vars

\* a message failed in the scan, a later message of the same scan is in a
\* request, and the executor went through the plan
C21_Witness ==
    /\ exec = "complete"
    /\ \E i, j \in 1..Len(scanLog) :
          /\ i < j
          /\ ScanFailed(scanLog[i])
          /\ InRequest(scanLog[j].id)

\* the same with a label whose creation failed, in main.py
C21_WitnessLabel ==
    /\ mode = "main"
    /\ exec = "complete"
    /\ \E i, j \in 1..Len(scanLog) :
          /\ i < j
          /\ scanLog[i].action = "LABEL" /\ scanLog[i].lid = None
          /\ InRequest(scanLog[j].id)

\* C22: in both entry points the delete request adds TRASH and removes
\* INBOX, UNREAD and IMPORTANT, and every move request adds exactly one
\* identifier, a label identifier of the plan, and removes exactly INBOX.
C22_RequestMarkers ==
    \A k \in 1..Len(requests) :
        IF requests[k].call = "trash"
        THEN /\ requests[k].add = <<TRASH>>
             /\ Range(requests[k].remove) = {INBOX, UNREAD, IMPORTANT}
             /\ requests[k].ids = trash_ids
        ELSE /\ Len(requests[k].add) = 1
             /\ \E n \in 1..Len(move_map) :
                   /\ move_map[n].lid = requests[k].add[1]
                   /\ move_map[n].ids = requests[k].ids
             /\ requests[k].remove = <<INBOX>>

\* no worker is active and no handler is at work
NoWorker == mode = "main" /\ pc = "idle" /\ ~stop_pending /\ click = "none"

\* C23: however the invocations of start_click fall among the steps of a
\* worker's end through stop_process, once no worker is active is_running
\* is false and the start button is enabled.
C23_IdleWhenNoWorker == NoWorker => (~is_running /\ ~btn_disabled)

\* the places of the plan that hold the message: <<0, i>> is the i-th of the
\* delete set, <<n, i>> the i-th of the n-th move set
PlanPlaces(id) ==
    {<<0, i>> : i \in {i \in 1..Len(trash_ids) : trash_ids[i] = id}}
    \cup UNION {{<<n, i>> : i \in {i \in 1..Len(move_map[n].ids) : move_map[n].ids[i] = id}} :
                   n \in 1..Len(move_map)}

\* the places of this cycle's requests that hold the message
RequestPlaces(id) ==
    UNION {{<<k, i>> : i \in {i \in 1..Len(requests[k].ids) : requests[k].ids[i] = id}} :
               k \in 1..Len(requests)}

\* C24: in every cycle each message of the listed batch occurs at most once
\* in the delete set and the move sets taken together, and at most once in
\* the batchModify requests of the cycle.
C24_PlanIsPartition ==
    \A id \in Msgs :
        /\ Cardinality(PlanPlaces(id)) <= 1
        /\ Cardinality(RequestPlaces(id)) <= 1

\* a plan with a delete set and a move set, both requested
C24_Witness ==
    /\ exec = "complete"
    /\ trash_ids # <<>>
    /\ move_map # <<>>
    /\ \E a, b \in Msgs :
          /\ a # b
          /\ \E p \in RequestPlaces(a), q \in RequestPlaces(b) : p[1] # q[1]

\* the message has been scanned in the current cycle
Scanned(m) == \E i \in 1..Len(scanLog) : scanLog[i].id = m /\ scanLog[i].fetched

\* the domain of the message's sender holds a blacklist entry
BlacklistedMsg(m) == Blacklisted(config, ParseSenderMain(SenderOf(m)).domain)

\* C25: in continuous mode, with no cancellation and every call returning,
\* every message in the inbox is eventually scanned, and a message with a
\* blacklisted domain is eventually moved to trash, whatever else the inbox
\* holds and whatever the oracle answers for the other messages.
C25_EveryMessageEventuallyScanned ==
    \A m \in Msgs :
        /\ (m \in inbox) ~> Scanned(m)
        /\ (m \in inbox /\ BlacklistedMsg(m)) ~> (m \in trashed)

====
